---- MODULE Spec2Model ----
(***************************************************************************)
(* Model of pdf-cleaner: the blank-page classifier and rewriter            *)
(* (clean_pdf.py: is_probably_blank_page, clean_pdf) and the Ghostscript   *)
(* invoker (clean_pdf.py: find_ghostscript_exe, compress_with_ghostscript).*)
(*                                                                         *)
(* A page is what pypdf hands to the classifier: the outcome of            *)
(* page.extract_text(), the outcome of the /Resources -> /XObject lookup   *)
(* and the outcome of page.get_contents() with each stream's get_data().   *)
(* Text is a sequence of code points, stream data a sequence of bytes.     *)
(***************************************************************************)
EXTENDS Integers, Sequences, FiniteSets, TLC

(* ------------------------------ bounds --------------------------------- *)

\* Longest input document, in pages.
MaxPages == 3

\* Longest /Contents array of a page, in streams.
MaxStreams == 2

\* Largest number of keys of a page's /XObject dictionary.
MaxXObjects == 1

\* Most /process requests the server receives.
MaxRequests == 2

(* ------------------------- program constants --------------------------- *)

\* clean_pdf.py:101  if len(stripped) < 30
BlankThreshold == 30

\* clean_pdf.py:190  timeout=90
GsTimeout == 90

\* app.py:16  MAX_FREE_MB = 5
MAX_FREE_MB == 5

\* app.py:17  MAX_FREE_BYTES = MAX_FREE_MB * 1024 * 1024
MAX_FREE_BYTES == MAX_FREE_MB * 1024 * 1024

(* --------------------------- byte strings ------------------------------ *)

\* bytes.strip() with no argument removes ASCII whitespace.
BytesWhitespace == {9, 10, 11, 12, 13, 32}

\* str.strip() with no argument removes the characters str.isspace() accepts:
\* Tab to CR, the separators U+001C-U+001F, space, U+0085, U+00A0, U+1680,
\* U+2000-U+200A, U+2028, U+2029, U+202F, U+205F and U+3000.
StrWhitespace ==
    {9, 10, 11, 12, 13, 28, 29, 30, 31, 32, 133, 160, 5760}
    \cup (8192..8202) \cup {8232, 8233, 8239, 8287, 12288}

Rep(b, n) == [k \in 1..n |-> b]

\* strip(): leading and trailing whitespace removed, the inside untouched:
\* what is left runs from the first to the last non-whitespace element.
Strip(s, ws) ==
    IF \A i \in 1..Len(s) : s[i] \in ws THEN <<>>
    ELSE LET lo == CHOOSE i \in 1..Len(s) :
                     s[i] \notin ws /\ \A j \in 1..(i - 1) : s[j] \in ws
             hi == CHOOSE i \in 1..Len(s) :
                     s[i] \notin ws /\ \A j \in (i + 1)..Len(s) : s[j] \in ws
         IN SubSeq(s, lo, hi)

(* ------------------------------ pages ---------------------------------- *)

\* Outcomes of page.extract_text(): raises, returns None, returns a string.
TextRaise == [kind |-> "raise", val |-> <<>>]
TextNone  == [kind |-> "none", val |-> <<>>]
TextStr(s) == [kind |-> "str", val |-> s]

\* Outcomes of the /Resources -> /XObject lookup:
\*   raise   page.get or resources.get raises
\*   none    the page has no /Resources
\*   noxobj  /Resources has no /XObject entry
\*   dict    /XObject is a dictionary of n keys
\*   nokeys  /XObject is a truthy object whose keys() raises
Res(k, n) == [kind |-> k, n |-> n]

\* Outcomes of stream.get_data(): raises, returns None, returns bytes.
StreamRaise == [kind |-> "raise", data |-> <<>>]
StreamNone  == [kind |-> "none", data |-> <<>>]
StreamData(d) == [kind |-> "data", data |-> d]

\* Outcomes of page.get_contents(): raises, None, one stream, a list of streams.
Contents(k, ss) == [kind |-> k, streams |-> ss]

Page(no, t, r, c) == [no |-> no, text |-> t, res |-> r, contents |-> c]

(* ----------------------- the blank-page heuristic ---------------------- *)

\* clean_pdf.py:16-21
_safe_extract_text(page) ==
    IF page.text.kind = "str" THEN page.text.val ELSE <<>>

\* A broken _has_xobject_images_or_forms that asks for more than one key.
_has_xobject_off_by_one(page) ==
    CASE page.res.kind = "raise"  -> FALSE
      [] page.res.kind = "none"   -> FALSE
      [] page.res.kind = "noxobj" -> FALSE
      [] page.res.kind = "dict"   -> page.res.n > 1
      [] page.res.kind = "nokeys" -> TRUE

\* clean_pdf.py:24-42
_has_xobject_images_or_forms(page) ==
    CASE page.res.kind = "raise"  -> FALSE
      [] page.res.kind = "none"   -> FALSE
      [] page.res.kind = "noxobj" -> FALSE
      [] page.res.kind = "dict"   -> page.res.n > 0
      [] page.res.kind = "nokeys" -> TRUE

\* data += c.get_data() or b"" for each stream, a failing stream skipped.
RECURSIVE ConcatStreams(_)
ConcatStreams(ss) ==
    IF ss = <<>> THEN <<>>
    ELSE (IF Head(ss).kind = "data" THEN Head(ss).data ELSE <<>>)
         \o ConcatStreams(Tail(ss))

\* clean_pdf.py:45-70
_content_stream_bytes(page) ==
    CASE page.contents.kind = "raise"  -> <<>>
      [] page.contents.kind = "none"   -> <<>>
      [] page.contents.kind = "list"   -> ConcatStreams(page.contents.streams)
      [] page.contents.kind = "single" ->
            IF page.contents.streams[1].kind = "data"
            THEN page.contents.streams[1].data ELSE <<>>

\* A broken heuristic that measures the stream with "<=" instead of "<".
is_probably_blank_page_off_by_one(page) ==
    LET text == Strip(_safe_extract_text(page), StrWhitespace) IN
    IF text # <<>> THEN FALSE
    ELSE IF _has_xobject_images_or_forms(page) THEN FALSE
    ELSE LET data == _content_stream_bytes(page)
             stripped == Strip(data, BytesWhitespace) IN
         IF data = <<>> THEN TRUE
         ELSE IF Len(stripped) = 0 THEN TRUE
         ELSE IF Len(stripped) <= BlankThreshold THEN TRUE
         ELSE FALSE

\* clean_pdf.py:73-104
is_probably_blank_page(page) ==
    LET text == Strip(_safe_extract_text(page), StrWhitespace) IN
    IF text # <<>> THEN FALSE
    ELSE IF _has_xobject_images_or_forms(page) THEN FALSE
    ELSE LET data == _content_stream_bytes(page)
             stripped == Strip(data, BytesWhitespace) IN
         IF data = <<>> THEN TRUE
         ELSE IF Len(stripped) = 0 THEN TRUE
         ELSE IF Len(stripped) < BlankThreshold THEN TRUE
         ELSE FALSE

(* --------------------------- input documents --------------------------- *)

\* n bytes of drawing operators ("q", 113).
Ops(n) == Rep(113, n)

Half == BlankThreshold \div 2

Texts ==
    { TextRaise, TextNone, TextStr(<<>>), TextStr(<<32>>), TextStr(<<97>>),
      TextStr(<<10, 97, 32>>), TextStr(<<12288>>) }

Resources ==
    { Res("raise", 0), Res("none", 0), Res("noxobj", 0), Res("nokeys", 0) }
    \cup { Res("dict", n) : n \in 0..MaxXObjects }

\* Stream payloads around the threshold, bare and wrapped in whitespace.
SingleData ==
    { <<>>, <<32>>, Ops(1), Ops(BlankThreshold - 1), Ops(BlankThreshold),
      <<10>> \o Ops(BlankThreshold - 1) \o <<32>>,
      <<10>> \o Ops(BlankThreshold) \o <<32>> }

\* Streams of a /Contents array: their concatenation crosses the threshold.
ListStreams ==
    { StreamRaise, StreamData(Ops(Half - 1)), StreamData(<<32>> \o Ops(Half)) }

StreamLists == UNION { [1..n -> ListStreams] : n \in 0..MaxStreams }

\* get_contents() raising, returning None, returning one stream.
SimpleContents ==
    { Contents("raise", <<>>), Contents("none", <<>>),
      Contents("single", <<StreamRaise>>), Contents("single", <<StreamNone>>) }
    \cup { Contents("single", <<StreamData(d)>>) : d \in SingleData }

\* get_contents() returning a list of streams.
ListContents == { Contents("list", ss) : ss \in StreamLists }

Attrs(t, r, c) == [text |-> t, res |-> r, contents |-> c]

\* The make-ups of a page: every text with every resource lookup and every
\* simple content, and the stream lists on pages without text.
AllAttrs ==
    { Attrs(t, r, c) : t \in Texts, r \in Resources, c \in SimpleContents }
    \cup { Attrs(t, r, c) : t \in {TextStr(<<>>), TextRaise},
                            r \in {Res("none", 0), Res("dict", MaxXObjects)},
                            c \in ListContents }

\* A page of text and an empty page.
TextPage ==
    Attrs(TextStr(<<97>>), Res("none", 0),
          Contents("single", <<StreamData(Ops(BlankThreshold))>>))

EmptyPage == Attrs(TextStr(<<>>), Res("none", 0), Contents("none", <<>>))

BasicAttrs == { TextPage, EmptyPage }

\* A document of n pages: a page of any make-up a at position e, the ordinary
\* pages f around it. Page i carries its position in "no".
Doc(n, e, a, f) ==
    [i \in 1..n |-> LET x == IF i = e THEN a ELSE f[i]
                     IN Page(i, x.text, x.res, x.contents)]

\* An input file: one PdfReader cannot parse, or a document of pages.
Unparseable == [parse |-> FALSE, pages |-> <<>>]
Parsed(ps) == [parse |-> TRUE, pages |-> ps]

(* ------------------------------- state --------------------------------- *)

VARIABLES
    input,       \* the file at input_path
    pc,          \* position of the clean_pdf call
    total,       \* clean_pdf's local "total"
    removed,     \* clean_pdf's local "removed"
    kept_pages,  \* clean_pdf's local "kept_pages"
    idx,         \* the page the loop of clean_pdf is at
    writer,      \* the pages added to the PdfWriter
    output,      \* the file at output_path: NoFile, or its pages
    stats,       \* the value clean_pdf returned, NoStats before it returns
    failsafe,    \* whether the call took the failsafe branch
    onPath,      \* the Ghostscript binary names found on the search path
    quality,     \* compress_with_ghostscript's "quality" argument
    gpc,         \* position of the compress_with_ghostscript call
    cand,        \* the candidate find_ghostscript_exe is probing
    gs,          \* compress_with_ghostscript's local "gs"
    spawned,     \* subprocesses started by the call so far
    proc,        \* the Ghostscript subprocess: its state and exit status
    clock,       \* seconds since the subprocess was started
    gexc,        \* the exception that left the call, NoExc if none
    DAILY_USAGE_BY_IP,  \* app.py:21  the day of each IP's last processed PDF
    utc_day,     \* the current UTC date
    requests,    \* the /process requests: their arguments, locals and response
    cli          \* the run of the command line's main()

cleanVars ==
    <<input, pc, total, removed, kept_pages, idx, writer, output, stats, failsafe>>

gsVars == <<onPath, quality, gpc, cand, gs, spawned, proc, clock, gexc>>

callerVars == <<DAILY_USAGE_BY_IP, utc_day, requests, cli>>

vars == <<cleanVars, gsVars, callerVars>>

NoFile == [exists |-> FALSE, pages |-> <<>>]
File(ps) == [exists |-> TRUE, pages |-> ps]

NoStats == [returned |-> FALSE, total |-> 0, removed |-> 0, remaining |-> 0]
Stats(t, r, k) == [returned |-> TRUE, total |-> t, removed |-> r, remaining |-> k]

(* ------------------------------ Ghostscript ---------------------------- *)

\* clean_pdf.py:149  "candidates": the binary names, in the order they are probed.
candidates == <<"gs", "gswin64c", "gswin32c">>

\* clean_pdf.py:159  the quality profiles.
Qualities == {"screen", "ebook", "printer", "prepress"}

\* Exit statuses of the tool: success and two failures.
ExitCodes == {0, 1, 255}

\* What the tool may write on its stdout and stderr, as bytes: nothing, a
\* line of ASCII ("GS" CR LF, "Err" LF), or bytes that are not UTF-8.
Stdouts == { <<>>, <<71, 83, 13, 10>>, <<255>> }
Stderrs == { <<>>, <<69, 114, 114, 10>>, <<255, 254>> }

\* bytes.decode("utf-8"): whether the bytes are well-formed UTF-8, and the
\* code points they stand for.
RECURSIVE Utf8(_)
Utf8(b) ==
    IF b = <<>> THEN [ok |-> TRUE, text |-> <<>>]
    ELSE
      LET c == b[1]
          n == IF c < 128 THEN 1
               ELSE IF c \in 194..223 THEN 2
               ELSE IF c \in 224..239 THEN 3
               ELSE IF c \in 240..244 THEN 4
               ELSE 0
      IN  IF \/ n = 0
             \/ Len(b) < n
             \/ \E k \in 2..n : b[k] \notin 128..191
             \/ c = 224 /\ b[2] < 160
             \/ c = 237 /\ b[2] > 159
             \/ c = 240 /\ b[2] < 144
             \/ c = 244 /\ b[2] > 143
          THEN [ok |-> FALSE, text |-> <<>>]
          ELSE
            LET cp == IF n = 1 THEN c
                      ELSE IF n = 2 THEN (c - 192) * 64 + (b[2] - 128)
                      ELSE IF n = 3
                      THEN (c - 224) * 4096 + (b[2] - 128) * 64 + (b[3] - 128)
                      ELSE (c - 240) * 262144 + (b[2] - 128) * 4096
                           + (b[3] - 128) * 64 + (b[4] - 128)
                rest == Utf8(SubSeq(b, n + 1, Len(b)))
            IN  [ok |-> rest.ok, text |-> <<cp>> \o rest.text]

\* Universal newlines: CR LF and CR become LF.
RECURSIVE Newlines(_)
Newlines(t) ==
    IF t = <<>> THEN <<>>
    ELSE IF t[1] = 13
    THEN <<10>> \o Newlines(IF Len(t) >= 2 /\ t[2] = 10
                            THEN SubSeq(t, 3, Len(t)) ELSE Tail(t))
    ELSE <<t[1]>> \o Newlines(Tail(t))

\* clean_pdf.py:188-189  capture_output=True, text=True: result.stdout and
\* result.stderr are what the tool wrote, decoded in the locale's encoding
\* (UTF-8) with universal newlines.
Captured(b) == Newlines(Utf8(b).text)

\* The decoding of each output the tool may write: whether it succeeds, and
\* the text it gives.
Decoded ==
    [b \in Stdouts \cup Stderrs |-> [ok |-> Utf8(b).ok, text |-> Captured(b)]]

\* The subprocess: its state, its exit status, whether its output pipes have
\* reached end-of-file, and the bytes it wrote on them.
Proc(st, rc, eof, out, err) ==
    [state |-> st, returncode |-> rc, eof |-> eof, stdout |-> out, stderr |-> err]

NoProc == Proc("none", 0, FALSE, <<>>, <<>>)

\* An exception: its type, which raise statement made it (msg) and the text
\* that statement formats into the message (detail).
NoExc == [type |-> "none", msg |-> "none", detail |-> <<>>]
RuntimeError(m) == [type |-> "RuntimeError", msg |-> m, detail |-> <<>>]

\* clean_pdf.py:185-191  text=True: subprocess.run cannot decode what the tool
\* wrote; the exception is not a TimeoutExpired and leaves the call.
DecodeError == [type |-> "UnicodeDecodeError", msg |-> "decode", detail |-> <<>>]

\* The head of the message, "Ghostscript fall\'o al comprimir.\n", and its
\* labels "STDERR:\n" and "\nSTDOUT:\n", as code points.
FAILED ==
    <<71, 104, 111, 115, 116, 115, 99, 114, 105, 112, 116, 32, 102, 97, 108,
     108, 243, 32, 97, 108, 32, 99, 111, 109, 112, 114, 105, 109, 105, 114,
     46, 10>>
STDERR == <<83, 84, 68, 69, 82, 82, 58, 10>>
STDOUT == <<10, 83, 84, 68, 79, 85, 84, 58, 10>>

\* clean_pdf.py:196-200  the message of the failed run, piece by piece.
FailedError(err, out) ==
    [type |-> "RuntimeError", msg |-> "failed",
     detail |-> <<FAILED, STDERR, err, STDOUT, out>>]

\* compress_with_ghostscript has not been called.
GsNotCalled ==
    /\ onPath = {}
    /\ quality = "screen"
    /\ gpc = "idle"
    /\ cand = 1
    /\ gs = "None"
    /\ spawned = 0
    /\ proc = NoProc
    /\ clock = 0
    /\ gexc = NoExc

(* ------------------------------- callers ------------------------------- *)

\* The clients' addresses, as _get_client_ip returns them.
IPs == {"203.0.113.7", "unknown"}

\* The UTC dates, as _today_utc_date_str returns them: a day and the next.
Days == {1, 2}

\* DAILY_USAGE_BY_IP.get(ip) of an IP that is not in the dictionary.
None == 0

Requests == 1..MaxRequests

\* A call a caller made: the function, its input and output paths, how it ended.
Call(fn, src, dst, result) ==
    [fn |-> fn, src |-> src, dst |-> dst, result |-> result]

\* A response: status code, media type, the content and, for the report of
\* an exception, the exception that is formatted into it.
Reply(status, media, content, e) ==
    [status |-> status, media_type |-> media, content |-> content, e |-> e]

NoReply == Reply(0, "none", "none", NoExc)

\* A request the server has not received.
NoRequest ==
    [at |-> "idle", ip |-> "unknown", filename |-> <<>>, quality |-> "screen",
     compress |-> "yes", today |-> None, size |-> 0, calls |-> <<>>,
     final |-> "none", response |-> NoReply]

\* main() is not running.
NoCli ==
    [at |-> "off", exists |-> FALSE, parse |-> FALSE, compress |-> FALSE,
     quality |-> "ebook", calls |-> <<>>, final |-> "none", exc |-> NoExc,
     printed |-> "none", exit |-> 0]

\* Neither the server nor main() is running.
CallersNotStarted ==
    /\ DAILY_USAGE_BY_IP = [ip \in IPs |-> None]
    /\ utc_day = 1
    /\ requests = [r \in Requests |-> NoRequest]
    /\ cli = NoCli

(* ------------------------------ clean_pdf ------------------------------ *)

CleanInit ==
    /\ \/ input = Unparseable
       \/ input = Parsed(<<>>)
       \/ \E n \in 1..MaxPages : \E e \in 1..n : \E a \in AllAttrs :
            \E f \in [(1..n) \ {e} -> BasicAttrs] : input = Parsed(Doc(n, e, a, f))
    /\ pc = "start"
    /\ total = 0
    /\ removed = 0
    /\ kept_pages = 0
    /\ idx = 1
    /\ writer = <<>>
    /\ output = NoFile
    /\ stats = NoStats
    /\ failsafe = FALSE
    /\ GsNotCalled
    /\ CallersNotStarted

\* A broken clean_pdf that opens output_path before it reads the input.
ReadFailsAfterOpen ==
    /\ pc = "start"
    /\ ~input.parse
    /\ output' = File(<<>>)
    /\ pc' = "raised"
    /\ UNCHANGED <<input, total, removed, kept_pages, idx, writer, stats, failsafe>>
    /\ UNCHANGED <<gsVars, callerVars>>

\* clean_pdf.py:112  PdfReader(input_path) raises on an unparseable file and
\* the exception leaves clean_pdf.
ReadFails ==
    /\ pc = "start"
    /\ ~input.parse
    /\ pc' = "raised"
    /\ UNCHANGED <<input, total, removed, kept_pages, idx, writer, output, stats,
                   failsafe>>
    /\ UNCHANGED <<gsVars, callerVars>>

\* clean_pdf.py:112-117
ReadOk ==
    /\ pc = "start"
    /\ input.parse
    /\ total' = Len(input.pages)
    /\ removed' = 0
    /\ kept_pages' = 0
    /\ writer' = <<>>
    /\ idx' = 1
    /\ pc' = "loop"
    /\ UNCHANGED <<input, output, stats, failsafe>>
    /\ UNCHANGED <<gsVars, callerVars>>

\* A broken loop that leaves a blank page out without counting it.
LoopDropUncounted ==
    /\ pc = "loop"
    /\ idx <= total
    /\ is_probably_blank_page(input.pages[idx])
    /\ idx' = idx + 1
    /\ UNCHANGED <<input, pc, total, removed, kept_pages, writer, output, stats,
                   failsafe>>
    /\ UNCHANGED <<gsVars, callerVars>>

\* clean_pdf.py:119-122  a probably-blank page is counted and left out.
LoopDrop ==
    /\ pc = "loop"
    /\ idx <= total
    /\ is_probably_blank_page(input.pages[idx])
    /\ removed' = removed + 1
    /\ idx' = idx + 1
    /\ UNCHANGED <<input, pc, total, kept_pages, writer, output, stats, failsafe>>
    /\ UNCHANGED <<gsVars, callerVars>>

\* A broken loop that puts each kept page in front of the earlier ones.
LoopKeepPrepends ==
    /\ pc = "loop"
    /\ idx <= total
    /\ ~is_probably_blank_page(input.pages[idx])
    /\ writer' = <<input.pages[idx]>> \o writer
    /\ kept_pages' = kept_pages + 1
    /\ idx' = idx + 1
    /\ UNCHANGED <<input, pc, total, removed, output, stats, failsafe>>
    /\ UNCHANGED <<gsVars, callerVars>>

\* clean_pdf.py:119-124  any other page is added to the writer.
LoopKeep ==
    /\ pc = "loop"
    /\ idx <= total
    /\ ~is_probably_blank_page(input.pages[idx])
    /\ writer' = Append(writer, input.pages[idx])
    /\ kept_pages' = kept_pages + 1
    /\ idx' = idx + 1
    /\ UNCHANGED <<input, pc, total, removed, output, stats, failsafe>>
    /\ UNCHANGED <<gsVars, callerVars>>

\* A broken failsafe that rewrites the pages and forgets the counters.
FailsafeKeepsCounters ==
    /\ pc = "loop"
    /\ idx > total
    /\ kept_pages = 0 /\ total > 0
    /\ writer' = input.pages
    /\ failsafe' = TRUE
    /\ pc' = "write"
    /\ UNCHANGED <<input, total, removed, kept_pages, idx, output, stats>>
    /\ UNCHANGED <<gsVars, callerVars>>

\* clean_pdf.py:127-132  nothing was kept: every page is written after all.
Failsafe ==
    /\ pc = "loop"
    /\ idx > total
    /\ kept_pages = 0 /\ total > 0
    /\ writer' = input.pages
    /\ removed' = 0
    /\ kept_pages' = total
    /\ failsafe' = TRUE
    /\ pc' = "write"
    /\ UNCHANGED <<input, total, idx, output, stats>>
    /\ UNCHANGED <<gsVars, callerVars>>

\* clean_pdf.py:127  the failsafe's condition is false.
NoFailsafe ==
    /\ pc = "loop"
    /\ idx > total
    /\ ~(kept_pages = 0 /\ total > 0)
    /\ pc' = "write"
    /\ UNCHANGED <<input, total, removed, kept_pages, idx, writer, output, stats,
                   failsafe>>
    /\ UNCHANGED <<gsVars, callerVars>>

\* clean_pdf.py:134-137
WriteOutput ==
    /\ pc = "write"
    /\ output' = File(writer)
    /\ stats' = Stats(total, removed, kept_pages)
    /\ pc' = "done"
    /\ UNCHANGED <<input, total, removed, kept_pages, idx, writer, failsafe>>
    /\ UNCHANGED <<gsVars, callerVars>>

CleanNext ==
    \/ ReadFails
    \/ ReadOk
    \/ LoopDrop
    \/ LoopKeep
    \/ Failsafe
    \/ NoFailsafe
    \/ WriteOutput

SpecClean == CleanInit /\ [][CleanNext]_vars

(* ---------------------- compress_with_ghostscript ---------------------- *)

\* A subprocess.run that is given no timeout.
NoDeadline == GsTimeout + 2

\* clean_pdf.py:190  the timeout handed to subprocess.run.
Deadline == GsTimeout

\* clean_pdf is not running: the compressor is called on its own.
CleanNotCalled ==
    /\ input = Parsed(<<>>)
    /\ pc = "idle"
    /\ total = 0
    /\ removed = 0
    /\ kept_pages = 0
    /\ idx = 1
    /\ writer = <<>>
    /\ output = NoFile
    /\ stats = NoStats
    /\ failsafe = FALSE

\* A call of compress_with_ghostscript, on a machine with any of the
\* candidate binaries installed, for any quality.
GsInit ==
    /\ CleanNotCalled
    /\ CallersNotStarted
    /\ onPath \in SUBSET { candidates[i] : i \in 1..Len(candidates) }
    /\ quality \in Qualities
    /\ gpc = "find"
    /\ cand = 1
    /\ gs = "None"
    /\ spawned = 0
    /\ proc = NoProc
    /\ clock = 0
    /\ gexc = NoExc

\* clean_pdf.py:150-153  shutil.which finds the candidate: it is returned.
ProbeHit ==
    /\ gpc = "find"
    /\ cand <= Len(candidates)
    /\ candidates[cand] \in onPath
    /\ gs' = candidates[cand]
    /\ gpc' = "spawn"
    /\ UNCHANGED <<onPath, quality, cand, spawned, proc, clock, gexc>>
    /\ UNCHANGED <<cleanVars, callerVars>>

\* clean_pdf.py:150-152  shutil.which finds nothing: the next candidate.
ProbeMiss ==
    /\ gpc = "find"
    /\ cand <= Len(candidates)
    /\ candidates[cand] \notin onPath
    /\ cand' = cand + 1
    /\ UNCHANGED <<onPath, quality, gpc, gs, spawned, proc, clock, gexc>>
    /\ UNCHANGED <<cleanVars, callerVars>>

\* clean_pdf.py:154, 162-171  no candidate is left: find_ghostscript_exe
\* returns None and the call raises.
ToolMissing ==
    /\ gpc = "find"
    /\ cand > Len(candidates)
    /\ gexc' = RuntimeError("not installed")
    /\ gpc' = "raised"
    /\ UNCHANGED <<onPath, quality, cand, gs, spawned, proc, clock>>
    /\ UNCHANGED <<cleanVars, callerVars>>

\* clean_pdf.py:173-191  subprocess.run starts the tool.
Spawn ==
    /\ gpc = "spawn"
    /\ spawned' = spawned + 1
    /\ proc' = Proc("running", 0, FALSE, <<>>, <<>>)
    /\ clock' = 0
    /\ gpc' = "wait"
    /\ UNCHANGED <<onPath, quality, cand, gs, gexc>>
    /\ UNCHANGED <<cleanVars, callerVars>>

\* subprocess.run is still waiting: the tool runs, or it has exited and its
\* output pipes are held open (by a process it started).
Waiting == proc.state = "running" \/ (proc.state = "exited" /\ ~proc.eof)

\* subprocess.run has the exit status and all the output.
Collected == proc.state = "exited" /\ proc.eof

\* Both streams decode.
Decodes == Decoded[proc.stdout].ok /\ Decoded[proc.stderr].ok

\* A second passes while subprocess.run waits.
Tick ==
    /\ gpc = "wait"
    /\ Waiting
    /\ clock < Deadline
    /\ clock <= GsTimeout
    /\ clock' = clock + 1
    /\ UNCHANGED <<onPath, quality, gpc, cand, gs, spawned, proc, gexc>>
    /\ UNCHANGED <<cleanVars, callerVars>>

\* The tool exits by itself, with any status. It may also never do so.
ToolExit ==
    /\ gpc = "wait"
    /\ proc.state = "running"
    /\ \E rc \in ExitCodes : proc' = Proc("exited", rc, FALSE, <<>>, <<>>)
    /\ UNCHANGED <<onPath, quality, gpc, cand, gs, spawned, clock, gexc>>
    /\ UNCHANGED <<cleanVars, callerVars>>

\* The output pipes of the tool reach end-of-file, at its exit or later:
\* subprocess.run has read what was written. It may also never happen.
PipesEof ==
    /\ gpc = "wait"
    /\ proc.state = "exited"
    /\ ~proc.eof
    /\ \E out \in Stdouts : \E err \in Stderrs :
          proc' = Proc("exited", proc.returncode, TRUE, out, err)
    /\ UNCHANGED <<onPath, quality, gpc, cand, gs, spawned, clock, gexc>>
    /\ UNCHANGED <<cleanVars, callerVars>>

\* clean_pdf.py:186-193  the timeout expires while subprocess.run waits: it
\* kills the tool if it still runs and raises TimeoutExpired, which the call
\* turns into a RuntimeError.
TimeoutExpired ==
    /\ gpc = "wait"
    /\ Waiting
    /\ clock = Deadline
    /\ proc' = IF proc.state = "running"
               THEN Proc("killed", 0, FALSE, <<>>, <<>>)
               ELSE proc
    /\ gexc' = RuntimeError("timeout")
    /\ gpc' = "raised"
    /\ UNCHANGED <<onPath, quality, cand, gs, spawned, clock>>
    /\ UNCHANGED <<cleanVars, callerVars>>

\* clean_pdf.py:185-192  the output does not decode: UnicodeDecodeError is
\* raised inside subprocess.run, whatever the exit status, and is not caught.
DecodeFails ==
    /\ gpc = "wait"
    /\ Collected
    /\ ~Decodes
    /\ gexc' = DecodeError
    /\ gpc' = "raised"
    /\ UNCHANGED <<onPath, quality, cand, gs, spawned, proc, clock>>
    /\ UNCHANGED <<cleanVars, callerVars>>

\* A broken handler of a failed run that starts the tool once more.
ExitNonZeroRetries ==
    /\ gpc = "wait"
    /\ Collected
    /\ Decodes
    /\ proc.returncode # 0
    /\ IF spawned < 2
       THEN gpc' = "spawn" /\ gexc' = gexc
       ELSE /\ gpc' = "raised"
            /\ gexc' = FailedError(Decoded[proc.stderr].text, Decoded[proc.stdout].text)
    /\ UNCHANGED <<onPath, quality, cand, gs, spawned, proc, clock>>
    /\ UNCHANGED <<cleanVars, callerVars>>

\* clean_pdf.py:195-200  the tool exited with a non-zero status.
ExitNonZero ==
    /\ gpc = "wait"
    /\ Collected
    /\ Decodes
    /\ proc.returncode # 0
    /\ gexc' = FailedError(Decoded[proc.stderr].text, Decoded[proc.stdout].text)
    /\ gpc' = "raised"
    /\ UNCHANGED <<onPath, quality, cand, gs, spawned, proc, clock>>
    /\ UNCHANGED <<cleanVars, callerVars>>

\* clean_pdf.py:195  the tool exited with status 0: the call returns None.
ExitZero ==
    /\ gpc = "wait"
    /\ Collected
    /\ Decodes
    /\ proc.returncode = 0
    /\ gpc' = "returned"
    /\ UNCHANGED <<onPath, quality, cand, gs, spawned, proc, clock, gexc>>
    /\ UNCHANGED <<cleanVars, callerVars>>

\* The steps of the call itself: everything but the tool's own exit and the
\* end of its output.
GsCallStep ==
    \/ ProbeHit
    \/ ProbeMiss
    \/ ToolMissing
    \/ Spawn
    \/ Tick
    \/ TimeoutExpired
    \/ DecodeFails
    \/ ExitNonZero
    \/ ExitZero

GsNext ==
    \/ ProbeHit
    \/ ProbeMiss
    \/ ToolMissing
    \/ Spawn
    \/ Tick
    \/ ToolExit
    \/ PipesEof
    \/ TimeoutExpired
    \/ DecodeFails
    \/ ExitNonZero
    \/ ExitZero

SpecGs == GsInit /\ [][GsNext]_vars

\* The interpreter keeps running the call and time keeps passing; nothing
\* makes the tool exit.
LiveGs == GsInit /\ [][GsNext]_vars /\ WF_vars(GsCallStep)

(* ------------------------------ /process ------------------------------- *)

\* File names are sequences of code points.
\* "a.pdf", "A.PDF", "a.txt" and a name of one CJK character, U+6587, ".pdf".
Filenames ==
    { <<97, 46, 112, 100, 102>>,
      <<65, 46, 80, 68, 70>>,
      <<97, 46, 116, 120, 116>>,
      <<25991, 46, 112, 100, 102>> }

\* ".pdf"
DotPdf == <<46, 112, 100, 102>>

\* str.lower(), on the letters A-Z.
Lower(s) == [i \in 1..Len(s) |-> IF s[i] \in 65..90 THEN s[i] + 32 ELSE s[i]]

\* str.endswith
EndsWith(s, suffix) ==
    /\ Len(s) >= Len(suffix)
    /\ SubSeq(s, Len(s) - Len(suffix) + 1, Len(s)) = suffix

\* Whether str.encode("latin-1") succeeds: Response encodes its headers so.
Latin1(s) == \A i \in 1..Len(s) : s[i] < 256

\* The fields of the upload form.
Form(f, q, c) == [filename |-> f, quality |-> q, compress |-> c]

\* The forms the clients send: three well-formed ones, and one for each check
\* of app.py:504-512 that fails it.
Forms ==
    { Form(<<97, 46, 112, 100, 102>>, "screen", "yes"),
      Form(<<65, 46, 80, 68, 70>>, "printer", "no"),
      Form(<<25991, 46, 112, 100, 102>>, "ebook", "no"),
      Form(<<97, 46, 116, 120, 116>>, "screen", "yes"),
      Form(<<97, 46, 112, 100, 102>>, "prepress", "yes"),
      Form(<<97, 46, 112, 100, 102>>, "screen", "maybe") }

\* len(data_in): the largest upload that is accepted, and one byte more.
Sizes == {MAX_FREE_BYTES, MAX_FREE_BYTES + 1}

\* The exception of PdfReader on a file it cannot parse (clean_pdf.py:112).
ReadError == [type |-> "PdfReadError", msg |-> "read", detail |-> <<>>]

\* How a call of compress_with_ghostscript can end: the exception that leaves
\* it, NoExc if it returns, and the file at its output path afterwards.
GsOutcome(e, file) == [exc |-> e, file |-> file]

GsOutcomes ==
    { GsOutcome(RuntimeError("not installed"), "missing"),
      GsOutcome(RuntimeError("timeout"), "missing") }
    \cup { GsOutcome(DecodeError, "missing") }
    \cup { GsOutcome(FailedError(Captured(err), Captured(out)), "missing") :
             err \in { e \in Stderrs : e # <<>> /\ Utf8(e).ok },
             out \in { o \in Stdouts : o # <<>> /\ Utf8(o).ok } }
    \cup { GsOutcome(NoExc, f) : f \in {"missing", "empty", "data"} }

\* HTMLResponse(text, status_code=status)
HTMLResponse(text, status) == Reply(status, "text/html", text, NoExc)

\* app.py:550-551  the report of an exception caught around the pipeline.
ErrorReport(e) == Reply(500, "text/html", "Error procesando el PDF", e)

\* The handler returned `response`.
Answered(req, response) == [req EXCEPT !.at = "done", !.response = response]

\* app.py:503-522  the handler from its start to "await file.read()".
process_start(ip, form, today, last_day) ==
    LET req == [NoRequest EXCEPT !.ip = ip, !.filename = form.filename,
                                 !.quality = form.quality,
                                 !.compress = form.compress]
    IN  IF ~EndsWith(Lower(form.filename), DotPdf)
        THEN Answered(req, HTMLResponse("Solo se aceptan PDFs.", 400))
        ELSE IF form.quality \notin {"screen", "ebook", "printer"}
        THEN Answered(req, HTMLResponse("Opcion de calidad invalida.", 400))
        ELSE IF form.compress \notin {"yes", "no"}
        THEN Answered(req, HTMLResponse("Opcion invalida.", 400))
        ELSE IF last_day = today
        THEN Answered([req EXCEPT !.today = today],
                      HTMLResponse("Limite gratis alcanzado: 1 PDF al dia.", 429))
        ELSE [req EXCEPT !.today = today, !.at = "read"]

\* A broken pipeline that hands the upload itself to the compressor.
pipeline_compresses_upload(compress, parse, g) ==
    LET clean == Call("clean_pdf", "inp", "cleaned",
                      IF parse THEN "returned" ELSE "raised")
        squeeze == Call("compress_with_ghostscript", "inp", "outp",
                        IF g.exc = NoExc THEN "returned" ELSE "raised")
    IN  IF ~parse
        THEN [calls |-> <<clean>>, exc |-> ReadError, final |-> "none"]
        ELSE IF compress = "yes"
        THEN [calls |-> <<clean, squeeze>>, exc |-> g.exc,
              final |-> IF g.exc = NoExc THEN g.file ELSE "none"]
        ELSE [calls |-> <<clean>>, exc |-> NoExc, final |-> "data"]

\* app.py:536-543  the calls inside the try block: the calls made, the
\* exception that left them (NoExc if none) and the file at final_path.
\* `parse`: whether the upload is a parseable PDF; `g`: how the compressor ends.
pipeline(compress, parse, g) ==
    LET clean == Call("clean_pdf", "inp", "cleaned",
                      IF parse THEN "returned" ELSE "raised")
        squeeze == Call("compress_with_ghostscript", "cleaned", "outp",
                        IF g.exc = NoExc THEN "returned" ELSE "raised")
    IN  IF ~parse
        THEN [calls |-> <<clean>>, exc |-> ReadError, final |-> "none"]
        ELSE IF compress = "yes"
        THEN [calls |-> <<clean, squeeze>>, exc |-> g.exc,
              final |-> IF g.exc = NoExc THEN g.file ELSE "none"]
        ELSE [calls |-> <<clean>>, exc |-> NoExc, final |-> "data"]

\* app.py:556-568  Response(content=data_out, ..., headers={"Content-
\* Disposition": ... download_name ...}): the constructor encodes the header
\* values as latin-1, and its UnicodeEncodeError leaves the handler, which the
\* server answers with its plain 500.
respond(download_name, data_out) ==
    IF Latin1(download_name)
    THEN Reply(200, "application/pdf", data_out, NoExc)
    ELSE Reply(500, "text/plain", "Internal Server Error", NoExc)

\* app.py:503-522  a request arrives and its handler runs to the await.
ProcessStart(r) ==
    /\ cli.at = "off"
    /\ requests[r].at = "idle"
    /\ \A q \in 1..(r - 1) : requests[q].at # "idle"
    /\ \E ip \in IPs : \E form \in Forms :
          requests' = [requests EXCEPT ![r] =
              process_start(ip, form, utc_day, DAILY_USAGE_BY_IP[ip])]
    /\ UNCHANGED <<DAILY_USAGE_BY_IP, utc_day, cli>>
    /\ UNCHANGED <<cleanVars, gsVars>>

\* app.py:522-568  file.read() completes and the handler runs to its end.
ProcessFinish(r) ==
    /\ requests[r].at = "read"
    /\ \E size \in Sizes : \E parse \in BOOLEAN : \E g \in GsOutcomes :
          \* an upload that is refused is not parsed, and the compressor ends
          \* in some way only where it is called
          /\ size > MAX_FREE_BYTES => ~parse
          /\ (~parse \/ requests[r].compress # "yes") => g = GsOutcome(NoExc, "data")
          /\ LET req == [requests[r] EXCEPT !.size = size]
                 piped == pipeline(req.compress, parse, g)
                 ran == [req EXCEPT !.calls = piped.calls, !.final = piped.final]
             IN
              IF size > MAX_FREE_BYTES
              THEN /\ requests' = [requests EXCEPT ![r] =
                         Answered(req, HTMLResponse("Limite gratis: maximo 5MB por PDF.", 413))]
                   /\ UNCHANGED DAILY_USAGE_BY_IP
              ELSE IF piped.exc # NoExc
              THEN /\ requests' = [requests EXCEPT ![r] =
                         Answered(ran, ErrorReport(piped.exc))]
                   /\ UNCHANGED DAILY_USAGE_BY_IP
              ELSE IF piped.final = "missing"
              THEN /\ requests' = [requests EXCEPT ![r] =
                         Answered(ran, HTMLResponse("No se genero el archivo final.", 500))]
                   /\ UNCHANGED DAILY_USAGE_BY_IP
              ELSE /\ DAILY_USAGE_BY_IP' =
                         [DAILY_USAGE_BY_IP EXCEPT ![req.ip] = req.today]
                   /\ requests' = [requests EXCEPT ![r] =
                         Answered(ran, respond(req.filename, piped.final))]
    /\ UNCHANGED <<utc_day, cli>>
    /\ UNCHANGED <<cleanVars, gsVars>>

\* app.py:483-484  the UTC date changes while the server is up.
Midnight ==
    /\ cli.at = "off"
    /\ utc_day + 1 \in Days
    /\ utc_day' = utc_day + 1
    /\ UNCHANGED <<DAILY_USAGE_BY_IP, requests, cli>>
    /\ UNCHANGED <<cleanVars, gsVars>>

(* -------------------------------- main() ------------------------------- *)

\* os.path.getsize on a path that does not exist.
FileNotFound == [type |-> "FileNotFoundError", msg |-> "getsize", detail |-> <<>>]

\* An exception leaves main(): the interpreter prints it and exits with 1.
Dies(c, e) == [c EXCEPT !.at = "exited", !.exc = e, !.exit = 1]

\* clean_pdf.py:228-230  the input path is checked.
MainCheckInput ==
    /\ cli.at = "start"
    /\ cli' = IF ~cli.exists
              THEN [cli EXCEPT !.at = "exited",
                               !.printed = "No existe el archivo de entrada",
                               !.exit = 1]
              ELSE [cli EXCEPT !.at = "clean"]
    /\ UNCHANGED <<DAILY_USAGE_BY_IP, utc_day, requests>>
    /\ UNCHANGED <<cleanVars, gsVars>>

\* clean_pdf.py:232-235  stats = clean_pdf(args.input, tmp_clean)
MainClean ==
    /\ cli.at = "clean"
    /\ LET called == [cli EXCEPT !.calls = Append(cli.calls,
                          Call("clean_pdf", "input", "tmp_clean",
                               IF cli.parse THEN "returned" ELSE "raised"))]
       IN  cli' = IF ~cli.parse
                  THEN Dies(called, ReadError)
                  ELSE [called EXCEPT !.at = IF cli.compress THEN "compress"
                                                             ELSE "copy"]
    /\ UNCHANGED <<DAILY_USAGE_BY_IP, utc_day, requests>>
    /\ UNCHANGED <<cleanVars, gsVars>>

\* clean_pdf.py:237-247  without --compress the cleaned file is the output.
MainCopy ==
    /\ cli.at = "copy"
    /\ cli' = [cli EXCEPT !.at = "exited", !.final = "data",
                          !.printed = "OK (solo clean)"]
    /\ UNCHANGED <<DAILY_USAGE_BY_IP, utc_day, requests>>
    /\ UNCHANGED <<cleanVars, gsVars>>

\* clean_pdf.py:249  compress_with_ghostscript(tmp_clean, args.output, ...)
MainCompress ==
    /\ cli.at = "compress"
    /\ \E g \in GsOutcomes :
          LET called == [cli EXCEPT !.calls = Append(cli.calls,
                             Call("compress_with_ghostscript", "tmp_clean", "output",
                                  IF g.exc = NoExc THEN "returned" ELSE "raised"))]
          IN  cli' = IF g.exc # NoExc
                     THEN Dies(called, g.exc)
                     ELSE [called EXCEPT !.at = "report", !.final = g.file]
    /\ UNCHANGED <<DAILY_USAGE_BY_IP, utc_day, requests>>
    /\ UNCHANGED <<cleanVars, gsVars>>

\* clean_pdf.py:251-259  the sizes are read and the success message printed.
MainReport ==
    /\ cli.at = "report"
    /\ cli' = IF cli.final = "missing"
              THEN Dies(cli, FileNotFound)
              ELSE [cli EXCEPT !.at = "exited",
                               !.printed = "OK (clean + compress)"]
    /\ UNCHANGED <<DAILY_USAGE_BY_IP, utc_day, requests>>
    /\ UNCHANGED <<cleanVars, gsVars>>

(* ----------------------------- the callers ----------------------------- *)

\* The server is up and has received nothing yet (app.py:21).
ServerInit ==
    /\ DAILY_USAGE_BY_IP = [ip \in IPs |-> None]
    /\ utc_day = 1
    /\ requests = [r \in Requests |-> NoRequest]
    /\ cli = NoCli

\* clean_pdf.py:211-226  main() has parsed its arguments; the input path may
\* or may not exist, and may or may not be a parseable PDF.
MainInit ==
    /\ DAILY_USAGE_BY_IP = [ip \in IPs |-> None]
    /\ utc_day = 1
    /\ requests = [r \in Requests |-> NoRequest]
    /\ \E exists \in BOOLEAN : \E parse \in BOOLEAN :
       \E compress \in BOOLEAN : \E q \in Qualities :
          /\ parse => exists
          /\ cli = [NoCli EXCEPT !.at = "start", !.exists = exists,
                                 !.parse = parse, !.compress = compress,
                                 !.quality = q]

\* Either caller starts; clean_pdf and the compressor are seen through how
\* their calls end.
CallersInit ==
    /\ CleanNotCalled
    /\ GsNotCalled
    /\ ServerInit \/ MainInit

CallersNext ==
    \/ \E r \in Requests : ProcessStart(r)
    \/ \E r \in Requests : ProcessFinish(r)
    \/ Midnight
    \/ MainCheckInput
    \/ MainClean
    \/ MainCopy
    \/ MainCompress
    \/ MainReport

SpecCallers == CallersInit /\ [][CallersNext]_vars

(* ----------------------- vocabulary of the claims ---------------------- *)

Range(seq) == { seq[i] : i \in 1..Len(seq) }

Returned == pc = "done"

\* The page's extracted text holds a character that is not whitespace.
HasText(p) ==
    /\ p.text.kind = "str"
    /\ \E k \in 1..Len(p.text.val) : p.text.val[k] \notin StrWhitespace

\* Extraction gave no text: it failed, gave None, or gave only whitespace.
NoText(p) == ~HasText(p)

\* The page declares at least one XObject.
DeclaresXObject(p) == p.res.kind = "dict" /\ p.res.n >= 1

\* The page declares no resource: no /Resources, no /XObject, or an empty one.
DeclaresNothing(p) ==
    \/ p.res.kind \in {"none", "noxobj"}
    \/ p.res.kind = "dict" /\ p.res.n = 0

\* The bytes of the page's streams, in order, those that decode.
RawBytes(p) ==
    IF p.contents.kind \in {"single", "list"}
    THEN ConcatStreams(p.contents.streams) ELSE <<>>

\* Every stream of the page decodes.
StreamsDecode(p) ==
    /\ p.contents.kind # "raise"
    /\ \A k \in 1..Len(p.contents.streams) : p.contents.streams[k].kind # "raise"

\* Length of the content stream between its first and last non-whitespace byte.
TrimmedLen(p) ==
    LET d == RawBytes(p) IN
    IF \A i \in 1..Len(d) : d[i] \in BytesWhitespace THEN 0
    ELSE LET lo == CHOOSE i \in 1..Len(d) :
                     d[i] \notin BytesWhitespace
                     /\ \A j \in 1..(i - 1) : d[j] \in BytesWhitespace
             hi == CHOOSE i \in 1..Len(d) :
                     d[i] \notin BytesWhitespace
                     /\ \A j \in (i + 1)..Len(d) : d[j] \in BytesWhitespace
         IN hi - lo + 1

\* One of the page's extraction steps failed.
ExtractionFailed(p) ==
    \/ p.text.kind = "raise"
    \/ p.res.kind = "raise"
    \/ ~StreamsDecode(p)

Kept(p) == p \in Range(output.pages)

\* The positions of the output's pages in the input rise strictly.
InOrder(ps) == \A i, j \in 1..Len(ps) : i < j => ps[i].no < ps[j].no

(* -------------------------------- C1 ----------------------------------- *)

\* C1: a document of N >= 1 pages gives an output of at least one page and
\* remaining >= 1; when every page is classified probably-blank the output is
\* all N original pages, removed = 0 and remaining = N.
C1_NeverEmpty ==
    (Returned /\ Len(input.pages) >= 1) =>
        /\ output.exists
        /\ Len(output.pages) >= 1
        /\ stats.remaining >= 1
        /\ (\A i \in 1..Len(input.pages) : is_probably_blank_page(input.pages[i])) =>
              /\ output.pages = input.pages
              /\ stats.removed = 0
              /\ stats.remaining = Len(input.pages)

\* Two or more pages, all probably-blank, all written.
C1_Witness ==
    /\ Returned
    /\ Len(input.pages) >= 2
    /\ \A i \in 1..Len(input.pages) : is_probably_blank_page(input.pages[i])
    /\ output.pages = input.pages
    /\ stats = Stats(Len(input.pages), 0, Len(input.pages))

(* -------------------------------- C2 ----------------------------------- *)

\* C2: the returned stats satisfy removed + remaining = total, and total is
\* the input's page count, with or without the failsafe.
C2_StatsAddUp ==
    Returned =>
        /\ stats.returned
        /\ stats.total = Len(input.pages)
        /\ stats.removed + stats.remaining = stats.total

\* A run that removed a page and kept another.
C2_Witness ==
    /\ Returned
    /\ stats.removed >= 1
    /\ stats.remaining >= 1
    /\ stats.total >= 2

(* -------------------------------- C3 ----------------------------------- *)

\* C3: a page whose text is not all whitespace, and a page with no text that
\* declares an XObject, is in the output, whatever its content stream holds.
C3_PositiveSignalKept ==
    Returned =>
        \A i \in 1..Len(input.pages) :
            LET p == input.pages[i] IN
            (HasText(p) \/ (NoText(p) /\ DeclaresXObject(p))) => Kept(p)

\* A scanned page with no text and no content stream is kept while another
\* page of the document is removed.
C3_Witness ==
    /\ Returned
    /\ stats.removed >= 1
    /\ \E i \in 1..Len(input.pages) :
          LET p == input.pages[i] IN
          /\ NoText(p) /\ DeclaresXObject(p)
          /\ TrimmedLen(p) = 0
          /\ Kept(p)

(* -------------------------------- C4 ----------------------------------- *)

\* C4: a page with no text and no declared resource is left out exactly when
\* its content stream (the streams that decode, concatenated and trimmed) is
\* shorter than 30 bytes, unless the failsafe wrote every page.
C4_ThresholdDrop ==
    Returned =>
        \A i \in 1..Len(input.pages) :
            LET p == input.pages[i] IN
            (NoText(p) /\ DeclaresNothing(p)) =>
                (Kept(p) <=> (TrimmedLen(p) >= 30 \/ failsafe))

\* A page of 29 bytes wrapped in whitespace is removed and, in the same
\* run, a page of text is kept.
C4_Witness ==
    /\ Returned
    /\ ~failsafe
    /\ \E i \in 1..Len(input.pages) :
          LET p == input.pages[i] IN
          /\ NoText(p) /\ DeclaresNothing(p) /\ StreamsDecode(p)
          /\ TrimmedLen(p) = 29
          /\ Len(RawBytes(p)) > 29
          /\ ~Kept(p)

(* -------------------------------- C5 ----------------------------------- *)

\* C5: the output is the input's pages that are not probably-blank, in their
\* original order, none twice (all of them when the failsafe fires), and
\* removed counts the pages left out; [text, image-only, empty] gives
\* [page 1, page 2] and {total 3, removed 1, remaining 2}.
C5_OrderedSubsequence ==
    Returned =>
        /\ output.pages =
              IF failsafe THEN input.pages
              ELSE SelectSeq(input.pages, LAMBDA p : ~is_probably_blank_page(p))
        /\ InOrder(output.pages)
        /\ stats.removed = Len(input.pages) - Len(output.pages)
        /\ stats.remaining = Len(output.pages)
        /\ (/\ Len(input.pages) = 3
            /\ HasText(input.pages[1])
            /\ NoText(input.pages[2]) /\ DeclaresXObject(input.pages[2])
            /\ input.pages[3] = Page(3, EmptyPage.text, EmptyPage.res,
                                     EmptyPage.contents))
           => /\ output.pages = <<input.pages[1], input.pages[2]>>
              /\ stats = Stats(3, 1, 2)

\* The document [text, image-only, empty] after the run.
C5_Witness ==
    /\ Returned
    /\ Len(input.pages) = 3
    /\ HasText(input.pages[1])
    /\ NoText(input.pages[2]) /\ DeclaresXObject(input.pages[2])
    /\ input.pages[3] = Page(3, EmptyPage.text, EmptyPage.res, EmptyPage.contents)
    /\ output.pages = <<input.pages[1], input.pages[2]>>
    /\ stats = Stats(3, 1, 2)

(* -------------------------------- C7 ----------------------------------- *)

\* C7: a page for which text extraction, the resource lookup or the decoding
\* of a stream failed is treated as a page to keep: it is never left out.
C7_FailureKeeps ==
    Returned =>
        \A i \in 1..Len(input.pages) :
            ExtractionFailed(input.pages[i]) => Kept(input.pages[i])

(* -------------------------------- C8 ----------------------------------- *)

\* C8: the call raises only for an input that cannot be parsed, and then it
\* returns no stats and writes no file; for a parseable input it never raises,
\* a page whose extraction fails is stepped over like any other, and the call
\* ends with the file written and the stats returned.
C8_OnlyReadErrorRaises ==
    /\ pc = "raised" => (~input.parse /\ ~output.exists /\ ~stats.returned)
    /\ ~input.parse => (pc \in {"start", "raised"} /\ ~output.exists /\ ~stats.returned)
    /\ input.parse => pc \in {"start", "loop", "write", "done"}
    /\ (pc = "loop" /\ idx <= total /\ ExtractionFailed(input.pages[idx])) =>
          ENABLED (LoopDrop \/ LoopKeep)
    /\ Returned => (output.exists /\ stats.returned)

\* The read error has left clean_pdf.
C8_Witness ==
    /\ pc = "raised"
    /\ ~input.parse
    /\ ~output.exists
    /\ ~stats.returned

(* -------------------------------- C9 ----------------------------------- *)

GsEnded == gpc \in {"returned", "raised"}

\* The first candidate, in probing order, that is on the search path.
FirstOnPath ==
    LET hits == { i \in 1..Len(candidates) : candidates[i] \in onPath } IN
    IF hits = {} THEN "None"
    ELSE candidates[CHOOSE i \in hits : \A j \in hits : i <= j]

\* C9: one call starts no subprocess when none of gs, gswin64c, gswin32c is
\* on the search path, and then fails as "tool unavailable"; otherwise it
\* starts exactly one, of the first candidate found in that order, whatever
\* the run's outcome.
C9_SpawnCount ==
    /\ spawned \in {0, 1}
    /\ onPath = {} => spawned = 0
    /\ GsEnded =>
          IF onPath = {}
          THEN spawned = 0 /\ gexc = RuntimeError("not installed")
          ELSE spawned = 1 /\ gs = FirstOnPath /\ gexc.msg # "not installed"

\* The call has failed on a machine without the tool, nothing started.
C9_Witness ==
    /\ gpc = "raised"
    /\ onPath = {}
    /\ spawned = 0
    /\ proc = NoProc
    /\ gexc = RuntimeError("not installed")

(* -------------------------------- C10 ---------------------------------- *)

Labelled(label, text) ==
    \E i \in 1..(Len(gexc.detail) - 1) :
        gexc.detail[i] = label /\ gexc.detail[i + 1] = text

\* C11: when the tool was found and exited before the timeout, the call
\* returns normally exactly when the exit status is 0; on any other status it
\* raises the "failed" error, whose message holds the captured stderr and
\* stdout unchanged.
C11_ExitStatusDecides ==
    (GsEnded /\ proc.state = "exited") =>
        /\ gpc = "returned" <=> proc.returncode = 0
        /\ gpc = "returned" => gexc = NoExc
        /\ proc.returncode # 0 =>
              /\ gexc.type = "RuntimeError"
              /\ gexc.msg = "failed"
              /\ Labelled(STDERR, Captured(proc.stderr))
              /\ Labelled(STDOUT, Captured(proc.stdout))

(* -------------------------------- C12 ---------------------------------- *)

\* /process answered request r with the report of an exception.
Reported(r) ==
    /\ requests[r].at = "done"
    /\ requests[r].response.e # NoExc

\* What a client or an operator sees of a response, the exception's own text
\* apart.
Shape(response) == <<response.status, response.media_type, response.content>>

\* C12: a failure for a missing tool differs in type from every other failure
\* of the pipeline, and /process answers it with another status or text than
\* the one it uses for the other processing errors.
C12_ToolUnavailableDistinct ==
    \A r, q \in Requests :
        ( /\ Reported(r)
          /\ Reported(q)
          /\ requests[r].response.e = RuntimeError("not installed")
          /\ requests[q].response.e # RuntimeError("not installed") ) =>
            /\ requests[r].response.e.type # requests[q].response.e.type
            /\ Shape(requests[r].response) # Shape(requests[q].response)

(* -------------------------------- C13 ---------------------------------- *)

\* C13: a 200 response of /process after a compression, and the success
\* message of main() after a compression, are only produced for a final file
\* that exists and is not empty.
C13_FinalFileConfirmed ==
    /\ \A r \in Requests :
          ( /\ requests[r].at = "done"
            /\ requests[r].compress = "yes"
            /\ requests[r].response.status = 200 ) => requests[r].final = "data"
    /\ ( /\ cli.at = "exited"
         /\ cli.printed = "OK (clean + compress)" ) => cli.final = "data"

(* -------------------------------- C14 ---------------------------------- *)

\* In a caller's calls, every call of the compressor comes after a call of
\* clean_pdf that returned, reads the file that call wrote, and is followed
\* by no call of clean_pdf; after a clean_pdf that raised there is no call.
InSequence(calls) ==
    /\ \A i \in 1..Len(calls) :
          calls[i].fn = "compress_with_ghostscript" =>
             /\ i > 1
             /\ calls[i - 1].fn = "clean_pdf"
             /\ calls[i - 1].result = "returned"
             /\ calls[i].src = calls[i - 1].dst
             /\ \A j \in (i + 1)..Len(calls) : calls[j].fn # "clean_pdf"
    /\ \A i \in 1..Len(calls) :
          (calls[i].fn = "clean_pdf" /\ calls[i].result = "raised") =>
             Len(calls) = i

\* C14: in every request and in every run of main(), the compressor is called
\* only after clean_pdf returned, on exactly the file clean_pdf wrote;
\* clean_pdf is not called again afterwards, and when clean_pdf raises the
\* compressor is not called.
C14_StrictSequence ==
    /\ \A r \in Requests : InSequence(requests[r].calls)
    /\ InSequence(cli.calls)

\* A request was cleaned, then compressed, and answered with the PDF.
C14_Witness ==
    \E r \in Requests :
        /\ requests[r].at = "done"
        /\ Len(requests[r].calls) = 2
        /\ requests[r].calls[2].fn = "compress_with_ghostscript"
        /\ requests[r].response.status = 200

(* -------------------------------- C15 ---------------------------------- *)

\* C15: of the requests of one IP on one UTC day, at most one is answered
\* with the processed PDF.
C15_OnePdfPerDay ==
    \A r, q \in Requests :
        ( /\ requests[r].at = "done"
          /\ requests[q].at = "done"
          /\ requests[r].ip = requests[q].ip
          /\ requests[r].today = requests[q].today
          /\ requests[r].response.status = 200
          /\ requests[q].response.status = 200 ) => r = q

(* -------------------------------- C16 ---------------------------------- *)

\* C16: a step in which a request is answered with anything but the
\* processed PDF leaves DAILY_USAGE_BY_IP as it was.
C16_ErrorLeavesUsage ==
    [][ \A r \in Requests :
          ( /\ requests[r].at # "done"
            /\ requests'[r].at = "done"
            /\ requests'[r].response.status # 200 ) =>
              DAILY_USAGE_BY_IP' = DAILY_USAGE_BY_IP ]_vars

====
